---- MODULE Spec2Model ----
(***************************************************************************)
(* A model of the NCBI sequence retriever (src/SequenceRetriever.py and    *)
(* its earlier revision src/sequence_retriever_ver2.py).                   *)
(*                                                                         *)
(* Text is a sequence of one-character strings, so that strip(), upper(),  *)
(* split() and the regular expressions of the code are computed character  *)
(* by character.  The fixed messages of the code, which are never matched  *)
(* against a pattern, are one-element sequences holding the whole message. *)
(* Time stamps written to the logs come from the clock and are left out of *)
(* the log records.                                                        *)
(***************************************************************************)
EXTENDS Integers, Sequences, FiniteSets, TLC

VARIABLES
    rev,                         \* 1: SequenceRetriever.py, 2: sequence_retriever_ver2.py
    entry,                       \* the method the caller invoked
    pc,                          \* position of the control thread
    verify_input, validate_data, \* run_retriever's parameters
    column,                      \* lines of df["NCBI_SRA_number"].to_string(index=False)
    sra_log,                     \* the identifier log file SRA-Numbers/sra-log, a list of lines
    data_hash_table,             \* self.data_hash_table, an insertion-ordered dict
    past_sra,                    \* self.past_sra
    sra_list,                    \* run_retriever's sra_list (the argument of each stage)
    correct_data,                \* verify_sra_format's correct_data
    idx,                         \* index of the running loop
    prefetch_access_denied_sra,
    prefetch_access_failed_sra,
    prefetch_oversize_sra,
    previously_retrieved_sra,
    files,                       \* the error log files, each a list of lines
    cmds,                        \* the external commands invoked so far, in order
    outputs,                     \* captured vdb-validate output per validated identifier
    validation                   \* validate_sra_data's result

vars == <<rev, entry, pc, verify_input, validate_data, column, sra_log, data_hash_table,
          past_sra, sra_list, correct_data, idx, prefetch_access_denied_sra,
          prefetch_access_failed_sra, prefetch_oversize_sra,
          previously_retrieved_sra, files, cmds, outputs, validation>>

----------------------------------------------------------------------------
(* Characters and text *)

LowerCase == <<"a","b","c","d","e","f","g","h","i","j","k","l","m",
               "n","o","p","q","r","s","t","u","v","w","x","y","z">>
UpperCase == <<"A","B","C","D","E","F","G","H","I","J","K","L","M",
               "N","O","P","Q","R","S","T","U","V","W","X","Y","Z">>
Digits == {"0","1","2","3","4","5","6","7","8","9"}
Whitespace == {" ", "\t", "\n", "\r", "\f"}

LowerSet == {LowerCase[k] : k \in 1..26}
UpperSet == {UpperCase[k] : k \in 1..26}

IsLower(c) == c \in LowerSet
IsUpper(c) == c \in UpperSet
IsAlnum(c) == IsLower(c) \/ IsUpper(c) \/ c \in Digits

ToUpper == [c \in LowerSet |-> UpperCase[CHOOSE k \in 1..26 : LowerCase[k] = c]]
ToLower == [c \in UpperSet |-> LowerCase[CHOOSE k \in 1..26 : UpperCase[k] = c]]

\* str.upper() / str.lower() on one ASCII character
Upper(c) == IF IsLower(c) THEN ToUpper[c] ELSE c
Lower(c) == IF IsUpper(c) THEN ToLower[c] ELSE c

UpperText(s) == [k \in 1..Len(s) |-> Upper(s[k])]

RECURSIVE LStrip(_)
LStrip(s) == IF s # <<>> /\ Head(s) \in Whitespace THEN LStrip(Tail(s)) ELSE s

RECURSIVE RStrip(_)
RStrip(s) == IF s # <<>> /\ s[Len(s)] \in Whitespace
             THEN RStrip(SubSeq(s, 1, Len(s) - 1)) ELSE s

\* str.strip()
Strip(s) == RStrip(LStrip(s))

IsNotNewline(c) == c # "\n"

\* str.replace('\n', '')
RemoveNewlines(s) == SelectSeq(s, IsNotNewline)

\* sra_num.strip().replace('\n', '')
Normalize(s) == RemoveNewlines(Strip(s))

\* str.split(sep) for a one-character separator
RECURSIVE Split(_, _)
Split(s, sep) ==
    IF \E k \in 1..Len(s) : s[k] = sep
    THEN LET k == CHOOSE j \in 1..Len(s) : s[j] = sep /\ \A m \in 1..(j - 1) : s[m] # sep
         IN  <<SubSeq(s, 1, k - 1)>> \o Split(SubSeq(s, k + 1, Len(s)), sep)
    ELSE <<s>>

\* str.split('\n')
SplitLines(s) == Split(s, "\n")

\* str.startswith
StartsWith(s, p) == Len(s) >= Len(p) /\ SubSeq(s, 1, Len(p)) = p

\* The positions "$" matches in s: the end, and before a final newline.
DollarEnds(s) == {Len(s)} \cup (IF s # <<>> /\ s[Len(s)] = "\n" THEN {Len(s) - 1} ELSE {})

\* p occurs in s ending at position n, letters compared without case (re.IGNORECASE)
OccursEndingAt(s, p, n) ==
    /\ n >= Len(p)
    /\ n <= Len(s)
    /\ \A k \in 1..Len(p) : Lower(s[n - Len(p) + k]) = Lower(p[k])

\* re.search(p, s, re.IGNORECASE) for a literal p
SearchCI(s, p) == \E n \in 1..Len(s) : OccursEndingAt(s, p, n)

\* re.search(p + "$", s, re.IGNORECASE) for a literal p
SearchEndCI(s, p) == \E n \in DollarEnds(s) : OccursEndingAt(s, p, n)

\* x in list
InList(x, list) == \E k \in 1..Len(list) : list[k] = x

\* the number of entries of list that satisfy Test
Count(list, Test(_)) == Len(SelectSeq(list, Test))

----------------------------------------------------------------------------
(* The error logs: SequenceRetriever.log_error *)

ErrorLog == "error-log.tsv"
InvalidLog == "invalid-sra-log.tsv"
PrivateLog == "private-sra-log.tsv"
OversizeLog == "oversize-sra-log.tsv"
ValidationLog == "validation-error-log.tsv"
PreviousLog == "previously-retrieved-error.tsv"

CategoryLogs == {InvalidLog, PrivateLog, OversizeLog, ValidationLog, PreviousLog}
LogFiles == {ErrorLog} \cup CategoryLogs

\* "Error_Time\tSRA_Accession_Number\tProject_ID\tUser_ID\tError_Reason\n"
label == [kind |-> "label", sra |-> <<>>, meta |-> <<>>, msg |-> <<>>]

\* f"{errorTime}\t{sra_num}\t" + f"{data}\t" for each data + f"{error_message}\n"
Record(sra_num, meta, error_message) ==
    [kind |-> "record", sra |-> sra_num, meta |-> meta, msg |-> error_message]

\* the line left behind when self.data_hash_table[sra_num] raises KeyError
Partial(sra_num) == [kind |-> "partial", sra |-> sra_num, meta |-> <<>>, msg |-> <<>>]

\* key in self.data_hash_table
HasKey(table, key) == \E k \in 1..Len(table) : table[k].key = key

\* self.data_hash_table[key]
TableGet(table, key) == table[CHOOSE k \in 1..Len(table) : table[k].key = key].value

\* a list in place of the dict: every line read adds an entry
TableSetAppend(table, key, value) == Append(table, [key |-> key, value |-> value])

\* self.data_hash_table[key] = value (a dict keeps the position of a key it holds)
TableSet(table, key, value) ==
    IF HasKey(table, key)
    THEN [k \in 1..Len(table) |->
            IF table[k].key = key THEN [key |-> key, value |-> value] ELSE table[k]]
    ELSE Append(table, [key |-> key, value |-> value])

\* the keys of the dict, in insertion order
TableKeys(table) == [k \in 1..Len(table) |-> table[k].key]

\* the label written by every call, whatever the first line is
WithLabelAlways(content) == Append(content, label)

\* file_ptr.seek(0); firstline = file_ptr.readline(); if firstline != label: write(label)
WithLabel(content) ==
    IF content = <<>> \/ Head(content) # label THEN Append(content, label) ELSE content

\* open(..., "a+"), the label check, and one record appended
AppendRecord(content, rec) == Append(WithLabel(content), rec)

\* the selection with a file for every id: what is not known is filed as invalid
CategoryFileCatchAll(rv, error_id) ==
    CASE error_id = "403" -> PrivateLog
      [] error_id = "1101" /\ rv = 1 -> OversizeLog
      [] error_id = "validation-failure" -> ValidationLog
      [] error_id = "1102" /\ rv = 1 -> PreviousLog
      [] OTHER -> InvalidLog

\* the "Separate Error Log" selection of log_error; "" when the id has no file
CategoryFile(rv, error_id) ==
    CASE error_id = "404" -> InvalidLog
      [] error_id = "403" -> PrivateLog
      [] error_id = "1101" /\ rv = 1 -> OversizeLog
      [] error_id = "validation-failure" -> ValidationLog
      [] error_id = "1102" /\ rv = 1 -> PreviousLog
      [] OTHER -> ""

\* log_error(sra_num, error_message, error_id): the log files after the call
log_error(fs, table, rv, sra_num, error_message, error_id) ==
    IF ~HasKey(table, sra_num)
    THEN [fs EXCEPT ![ErrorLog] = Append(WithLabel(@), Partial(sra_num))]
    ELSE LET rec == Record(sra_num, TableGet(table, sra_num), error_message)
             error_log_file == CategoryFile(rv, error_id)
             first == [fs EXCEPT ![ErrorLog] = AppendRecord(@, rec)]
         IN  IF error_log_file # ""
             THEN [first EXCEPT ![error_log_file] = AppendRecord(@, rec)]
             ELSE first

----------------------------------------------------------------------------
(* The identifier source *)

Tab == <<"\t">>
Newline == <<"\n">>

\* f"{SRA}\t{project_id}\t{user_id}\n"
LogLine(SRA, project_id, user_id) ==
    SRA \o Tab \o project_id \o Tab \o user_id \o Newline

\* read_SRA_log: the table after the lines of the identifier log are read
RECURSIVE read_SRA_log(_, _)
read_SRA_log(table, content) ==
    IF content = <<>> THEN table
    ELSE LET values == Split(RemoveNewlines(Head(content)), "\t")
         IN  read_SRA_log(TableSet(table, Strip(values[1]), Tail(values)), Tail(content))

\* "\n".join(lines)
RECURSIVE JoinLines(_)
JoinLines(lines) ==
    IF lines = <<>> THEN <<>>
    ELSE IF Len(lines) = 1 THEN lines[1]
    ELSE lines[1] \o Newline \o JoinLines(Tail(lines))

\* df_metadata["NCBI_SRA_number"].to_string(index=False): the name of the index when
\* it has one, then one line per cell of the column
to_string(col) == JoinLines(col.header \o col.cells)

\* retrieve_SRA: the lines written to the identifier log
retrieve_SRA(col, project_id, user_id) ==
    LET SRA_list == SplitLines(Strip(to_string(col)))
        kept == IF ~StartsWith(SRA_list[1], <<"S","R","R">>) THEN Tail(SRA_list)
                ELSE SRA_list
    IN  [k \in 1..Len(kept) |-> LogLine(kept[k], project_id, user_id)]

\* the pattern without its "$": whatever follows the first digit is let through
MatchSraPatternUnanchored(s) ==
    /\ Len(s) >= 4
    /\ SubSeq(s, 1, 3) \in {<<"S","R","R">>, <<"E","R","R">>}
    /\ s[4] \in Digits

\* re.match("^(SRR|ERR)[0-9]+$", s)
MatchSraPattern(s) ==
    \E n \in DollarEnds(s) :
        /\ n >= 4
        /\ SubSeq(s, 1, 3) \in {<<"S","R","R">>, <<"E","R","R">>}
        /\ \A k \in 4..n : s[k] \in Digits

IncorrectFormatting == <<"Incorrect Formatting">>

\* verify_sra_format matching sra_num as typed, the .upper() forgotten
RECURSIVE verify_sra_format_case(_, _, _, _, _)
verify_sra_format_case(sra_input, correct, fs, table, rv) ==
    IF sra_input = <<>> THEN [correct |-> correct, fs |-> fs, raised |-> FALSE]
    ELSE LET sra_num == Normalize(Head(sra_input))
         IN  IF MatchSraPattern(sra_num)
             THEN verify_sra_format_case(Tail(sra_input), Append(correct, sra_num), fs,
                                         table, rv)
             ELSE verify_sra_format_case(Tail(sra_input), correct,
                      log_error(fs, table, rv, sra_num, IncorrectFormatting, "404"),
                      table, rv)

\* verify_sra_format: [correct |-> correct_data, fs |-> the log files] after the loop
RECURSIVE verify_sra_format(_, _, _, _, _)
verify_sra_format(sra_input, correct, fs, table, rv) ==
    IF sra_input = <<>> THEN [correct |-> correct, fs |-> fs, raised |-> FALSE]
    ELSE LET sra_num == Normalize(Head(sra_input))
         IN  IF MatchSraPattern(UpperText(sra_num))
             THEN verify_sra_format(Tail(sra_input), Append(correct, sra_num), fs, table, rv)
             ELSE IF HasKey(table, sra_num)
                  THEN verify_sra_format(Tail(sra_input), correct,
                           log_error(fs, table, rv, sra_num, IncorrectFormatting, "404"),
                           table, rv)
                  ELSE [correct |-> correct, raised |-> TRUE,
                        fs |-> log_error(fs, table, rv, sra_num, IncorrectFormatting, "404")]

----------------------------------------------------------------------------
(* The retrieval driver: check_proccess_output and download_data *)

TxtAccessDenied == <<" ","A","c","c","e","s","s"," ","d","e","n","i","e","d"," ">>
Txt403 == <<" ","4","0","3"," ">>
TxtFailedToResolve == <<" ","f","a","i","l","e","d"," ","t","o"," ","r","e","s","o","l","v","e",
                        " ","a","c","c","e","s","s","i","o","n"," ">>
Txt404 == <<" ","4","0","4"," ">>
TxtLargerThanMax == <<"is larger than maximum allowed: skipped">>

\* the first of the two searches alone
HasDeniedSignatureNoCode(line) == SearchCI(line, TxtAccessDenied)

\* re.search(" Access denied ", line, I) != None and re.search("( 403 )", line, I) != None
HasDeniedSignature(line) == SearchCI(line, TxtAccessDenied) /\ SearchCI(line, Txt403)

\* re.search(" failed to resolve accession ", line, I) != None and re.search("( 404 )", ...)
HasFailedSignature(line) == SearchCI(line, TxtFailedToResolve) /\ SearchCI(line, Txt404)

\* The rejection lists of the object, as one record.
Lists(denied, failed, oversize, previous) ==
    [denied |-> denied, failed |-> failed, oversize |-> oversize, previous |-> previous]

\* a check that answers 403 for every identifier once one was denied access
check_proccess_output_sticky(lists, past, rv, sra_num, process, process_output) ==
    LET lines == SplitLines(Strip(process_output))
    IN  CASE process = "vdb-dump"
                /\ (HasDeniedSignature(lines[1]) \/ lists.denied # <<>>) ->
                [ret |-> 403, lists |-> [lists EXCEPT !.denied = Append(@, sra_num)]]
          [] process = "vdb-dump" /\ ~HasDeniedSignature(lines[1]) /\ lists.denied = <<>>
                                  /\ HasFailedSignature(lines[1]) ->
                [ret |-> 404, lists |-> [lists EXCEPT !.failed = Append(@, sra_num)]]
          [] OTHER -> [ret |-> -1, lists |-> lists]

\* check_proccess_output(sra_num, process, process_output): the value returned and the
\* rejection lists after the call
check_proccess_output(lists, past, rv, sra_num, process, process_output) ==
    LET lines == SplitLines(Strip(process_output))
    IN  CASE process = "vdb-dump" /\ HasDeniedSignature(lines[1]) ->
                [ret |-> 403, lists |-> [lists EXCEPT !.denied = Append(@, sra_num)]]
          [] process = "vdb-dump" /\ ~HasDeniedSignature(lines[1])
                                  /\ HasFailedSignature(lines[1]) ->
                [ret |-> 404, lists |-> [lists EXCEPT !.failed = Append(@, sra_num)]]
          [] process = "prefetch" /\ rv = 1 /\ Len(lines) >= 2
                                  /\ SearchCI(lines[2], TxtLargerThanMax) ->
                [ret |-> 1101, lists |-> lists]
          [] process = "previously_retrieved" /\ rv = 1 /\ InList(sra_num, past) ->
                [ret |-> 1102, lists |-> [lists EXCEPT !.previous = Append(@, sra_num)]]
          [] OTHER -> [ret |-> -1, lists |-> lists]

\* One invocation of an external command (or one look at the file system) with what
\* it answered.  For prefetch, out says whether the artifact directory exists afterwards.
Cmd(cmd, sra_num, out) == [cmd |-> cmd, sra |-> sra_num, out |-> out]

Present == <<"present">>
Absent == <<"absent">>

\* download_data without its "else: continue": a rejected identifier is fetched too
download_one_no_continue(lists, past, rv, sra_num, vdb_dump_output, artifact) ==
    LET chk == check_proccess_output(lists, past, rv, sra_num, "vdb-dump", vdb_dump_output)
    IN  [cmds |-> <<Cmd("vdb-dump", sra_num, vdb_dump_output),
                    Cmd("prefetch", sra_num, artifact),
                    Cmd("fasterq-dump", sra_num, <<>>)>>,
         lists |-> chk.lists]

\* download_data whose os.listdir() test records the identifier but goes on to convert
download_one_no_skip(lists, past, rv, sra_num, vdb_dump_output, artifact) ==
    LET chk == check_proccess_output(lists, past, rv, sra_num, "vdb-dump", vdb_dump_output)
        dump == <<Cmd("vdb-dump", sra_num, vdb_dump_output)>>
        prefetch == <<Cmd("prefetch", sra_num, artifact)>>
        convert == <<Cmd("fasterq-dump", sra_num, <<>>)>>
    IN  IF chk.ret # -1
        THEN [cmds |-> dump, lists |-> chk.lists]
        ELSE IF rv = 1 /\ artifact = Absent
             THEN [cmds |-> dump \o prefetch \o convert,
                   lists |-> [chk.lists EXCEPT !.oversize = Append(@, sra_num)]]
             ELSE [cmds |-> dump \o prefetch \o convert, lists |-> chk.lists]

\* download_data that looks for the artifact of a rejected identifier too
download_one_always_listdir(lists, past, rv, sra_num, vdb_dump_output, artifact) ==
    LET chk == check_proccess_output(lists, past, rv, sra_num, "vdb-dump", vdb_dump_output)
        dump == <<Cmd("vdb-dump", sra_num, vdb_dump_output)>>
        prefetch == <<Cmd("prefetch", sra_num, artifact)>>
        convert == <<Cmd("fasterq-dump", sra_num, <<>>)>>
    IN  IF rv = 1 /\ artifact = Absent
        THEN [cmds |-> IF chk.ret # -1 THEN dump ELSE dump \o prefetch,
              lists |-> [chk.lists EXCEPT !.oversize = Append(@, sra_num)]]
        ELSE IF chk.ret # -1
             THEN [cmds |-> dump, lists |-> chk.lists]
             ELSE [cmds |-> dump \o prefetch \o convert, lists |-> chk.lists]

\* One iteration of download_data's loop: the commands invoked and the lists afterwards.
download_one(lists, past, rv, sra_num, vdb_dump_output, artifact) ==
    LET chk == check_proccess_output(lists, past, rv, sra_num, "vdb-dump", vdb_dump_output)
        dump == <<Cmd("vdb-dump", sra_num, vdb_dump_output)>>
        prefetch == <<Cmd("prefetch", sra_num, artifact)>>
        convert == <<Cmd("fasterq-dump", sra_num, <<>>)>>
    IN  IF chk.ret # -1
        THEN [cmds |-> dump, lists |-> chk.lists]
        ELSE IF rv = 1 /\ artifact = Absent
             THEN [cmds |-> dump \o prefetch,
                   lists |-> [chk.lists EXCEPT !.oversize = Append(@, sra_num)]]
             ELSE [cmds |-> dump \o prefetch \o convert, lists |-> chk.lists]

----------------------------------------------------------------------------
(* The validation driver: validate_sra_data *)

TxtOk == <<" ","o","k">>
TxtReads == <<" ","r","e","a","d","s">>
TxtIsConsistent == <<"i","s"," ","c","o","n","s","i","s","t","e","n","t">>

\* re.search("[a-zA-Z0-9] ok$", line, I)
MatchesOk(line) ==
    \E n \in DollarEnds(line) :
        OccursEndingAt(line, TxtOk, n) /\ n >= 4 /\ IsAlnum(line[n - 3])

\* the three patterns without what they ask before "ok" and "reads"
GoodLineAnyEnding(line) ==
    \/ SearchEndCI(line, <<"o","k">>)
    \/ SearchEndCI(line, <<"r","e","a","d","s">>)
    \/ SearchEndCI(line, TxtIsConsistent)

\* The condition of validate_sra_data under which a line is skipped as good.
GoodLine(line) ==
    \/ MatchesOk(line)
    \/ SearchEndCI(line, TxtReads)
    \/ SearchEndCI(line, TxtIsConsistent)

MsgPrivate == <<"Project is private: Access Denied (403)">>
MsgIncorrectSRA == <<"Incorrect SRA: failed to resolve accession (404)">>
MsgSizeExceeds == <<"SRA size exceeds the maximum allowed size (1101)">>
MsgRetrievedPreviously == <<"SRA has been retrieved previously (1102)">>

\* the if/elif chain with the not-found list consulted before the access-denied one
ValidationErrFailedFirst(lists, rv, sra_num, line) ==
    CASE InList(sra_num, lists.failed) -> MsgIncorrectSRA
      [] ~InList(sra_num, lists.failed) /\ InList(sra_num, lists.denied) -> MsgPrivate
      [] rv = 1 /\ ~InList(sra_num, lists.denied) /\ ~InList(sra_num, lists.failed)
                /\ InList(sra_num, lists.oversize) -> MsgSizeExceeds
      [] rv = 1 /\ ~InList(sra_num, lists.denied) /\ ~InList(sra_num, lists.failed)
                /\ ~InList(sra_num, lists.oversize)
                /\ InList(sra_num, lists.previous) -> MsgRetrievedPreviously
      [] OTHER -> line

\* err, as the if/elif chain of validate_sra_data sets it for a failing line
ValidationErr(lists, rv, sra_num, line) ==
    CASE InList(sra_num, lists.denied) -> MsgPrivate
      [] ~InList(sra_num, lists.denied) /\ InList(sra_num, lists.failed) -> MsgIncorrectSRA
      [] rv = 1 /\ ~InList(sra_num, lists.denied) /\ ~InList(sra_num, lists.failed)
                /\ InList(sra_num, lists.oversize) -> MsgSizeExceeds
      [] rv = 1 /\ ~InList(sra_num, lists.denied) /\ ~InList(sra_num, lists.failed)
                /\ ~InList(sra_num, lists.oversize)
                /\ InList(sra_num, lists.previous) -> MsgRetrievedPreviously
      [] OTHER -> IF Len(line) > 0 THEN line ELSE <<>>

\* an inner loop that passes over a failing line the validation log already records
RECURSIVE validate_lines_new_only(_, _, _, _, _, _, _)
validate_lines_new_only(result, fs, validation_, table, lists, rv, sra_num) ==
    IF result = <<>> THEN [fs |-> fs, validation |-> validation_, raised |-> FALSE]
    ELSE LET err == ValidationErr(lists, rv, sra_num, Head(result))
             known == \E k \in 1..Len(fs[ValidationLog]) :
                         /\ fs[ValidationLog][k].sra = sra_num
                         /\ fs[ValidationLog][k].msg = err
             logged == log_error(fs, table, rv, sra_num, err, "validation-failure")
         IN  IF GoodLine(Head(result)) \/ known
             THEN validate_lines_new_only(Tail(result), fs, validation_, table, lists,
                                          rv, sra_num)
             ELSE validate_lines_new_only(Tail(result), logged, FALSE, table, lists,
                                          rv, sra_num)

\* The inner loop of validate_sra_data over the lines of one identifier's output.
RECURSIVE validate_lines(_, _, _, _, _, _, _)
validate_lines(result, fs, validation_, table, lists, rv, sra_num) ==
    IF result = <<>> THEN [fs |-> fs, validation |-> validation_, raised |-> FALSE]
    ELSE IF GoodLine(Head(result))
         THEN validate_lines(Tail(result), fs, validation_, table, lists, rv, sra_num)
         ELSE LET err == ValidationErr(lists, rv, sra_num, Head(result))
                  logged == log_error(fs, table, rv, sra_num, err, "validation-failure")
              IN  IF HasKey(table, sra_num)
                  THEN validate_lines(Tail(result), logged, FALSE, table, lists, rv, sra_num)
                  ELSE [fs |-> logged, validation |-> FALSE, raised |-> TRUE]

----------------------------------------------------------------------------
(* Cleanup: cleanup_files *)

MsgRemovalFailed(rv, sra_num) ==
    IF rv = 1
    THEN sra_num \o <<".sra and/or the folder containing this file failed to be removed.">>
    ELSE <<"Error: ">> \o sra_num
           \o <<".sra and/or the folder containing this file failed to be removed.">>

MsgDenied == <<"Incorrect SRA: access denied (403)">>
MsgFailed == <<"Incorrect SRA: failed to resolve accession (404)">>
MsgOversize == <<"SRA exceeds the maximum allowed size (1101)">>

\* a first loop that skips no identifier
CleanupSkipsNone(lists, rv, sra_num) == FALSE

\* The test of cleanup_files's first loop that skips an identifier.
CleanupSkips(lists, rv, sra_num) ==
    \/ InList(sra_num, lists.failed)
    \/ InList(sra_num, lists.denied)
    \/ rv = 1 /\ InList(sra_num, lists.oversize)

\* the loop that removes the output directories and logs nothing
RECURSIVE cleanup_rejected_silent(_, _, _, _, _, _, _, _)
cleanup_rejected_silent(list, removal, done, fs, table, rv, error_message, error_id) ==
    IF list = <<>> THEN [cmds |-> done, fs |-> fs, raised |-> FALSE]
    ELSE cleanup_rejected_silent(Tail(list), removal,
             Append(done, Cmd("rmdir-output", Head(list), removal[Head(list)])),
             fs, table, rv, error_message, error_id)

\* One of the loops over a rejection list at the end of cleanup_files: the rmdir of
\* each output directory (its answer is not looked at) and one log_error per entry.
RECURSIVE cleanup_rejected(_, _, _, _, _, _, _, _)
cleanup_rejected(list, removal, done, fs, table, rv, error_message, error_id) ==
    IF list = <<>> THEN [cmds |-> done, fs |-> fs, raised |-> FALSE]
    ELSE LET sra_num == Head(list)
             ran == Append(done, Cmd("rmdir-output", sra_num, removal[sra_num]))
             logged == log_error(fs, table, rv, sra_num, error_message, error_id)
         IN  IF HasKey(table, sra_num)
             THEN cleanup_rejected(Tail(list), removal, ran, logged, table, rv,
                                   error_message, error_id)
             ELSE [cmds |-> ran, fs |-> logged, raised |-> TRUE]

----------------------------------------------------------------------------
(* Bounds and the inputs the environment is drawn from *)

MaxLines == 2      \* lines of the identifier log
MaxInput == 2      \* entries of the list a method is called with
MaxCells == 2      \* cells of the spreadsheet column
MaxCalls == 3      \* calls of log_error

SRR1 == <<"S","R","R","1">>
err2 == <<"e","r","r","2">>
DRR3 == <<"D","R","R","3">>

Project == <<"p">>
User == <<"u">>

\* All lists of at most n entries of S
RECURSIVE ListsUpTo(_, _)
ListsUpTo(S, n) ==
    IF n = 0 THEN {<<>>}
    ELSE LET shorter == ListsUpTo(S, n - 1)
         IN  shorter \cup {Append(l, x) : l \in shorter, x \in S}

SR1 == <<"S","R","1">>
PaddedSRR1 == <<" ","S","R","R","1"," ">>
ERR7Newline == <<"E","R","R","7","\n">>
SRROnly == <<"S","R","R">>
SRR1x == <<"S","R","R","1","x">>

LogIds == {SRR1, err2, DRR3}
IdSamples == {SRR1, err2, DRR3, SR1, PaddedSRR1, ERR7Newline, SRROnly, SRR1x, <<>>}
CellSamples == {SRR1, err2, DRR3, <<" ">> \o SRR1}
IndexName == <<"I","D">>
Columns == {[header |-> h, cells |-> c] :
                h \in {<<>>, <<IndexName>>},
                c \in ListsUpTo(CellSamples, MaxCells) \ {<<>>}}

\* list has no entry twice
Distinct(list) == \A j, k \in 1..Len(list) : list[j] = list[k] => j = k
LogLines == {LogLine(id, Project, User) : id \in LogIds}

DumpOk == <<"a","c","c",":"," ","1">>
DumpDenied == <<"e","r","r">> \o TxtAccessDenied \o <<"(">> \o Txt403 \o <<")">>
DumpNotFound == <<"e","r","r">> \o TxtFailedToResolve \o <<"(">> \o Txt404 \o <<")">>
DumpBoth == DumpNotFound \o TxtAccessDenied \o <<"(">> \o Txt403 \o <<")">>
DumpLate == DumpOk \o Newline \o DumpDenied
DumpNoCode == <<"e","r","r">> \o TxtAccessDenied
DumpOutputs == {DumpOk, DumpDenied, DumpNotFound}
DumpSamples == DumpOutputs \cup {DumpBoth, DumpLate, DumpNoCode}

LineConsistent == <<"a"," ">> \o TxtIsConsistent
LineCorrupted == <<"b","a","d">>
LineReads == <<"1">> \o TxtReads
ValidateGood == LineConsistent
ValidateBad == LineCorrupted
ValidateTwoBad == LineReads \o Newline \o LineCorrupted \o Newline \o <<"e","r","r">>
ValidateOutputs == {ValidateGood, ValidateTwoBad}

LineOk == <<"5"," ","O","K">>
LineColonOk == <<":">> \o TxtOk
LineBook == <<"b","o","o","k">>
LineReadsOnly == <<"r","e","a","d","s">>
LineSamples == {LineConsistent, LineCorrupted, LineReads, LineOk, LineColonOk, LineBook,
                LineReadsOnly, <<>>}
ValidateSamples == LineSamples \cup {LineCorrupted \o Newline \o LineConsistent,
                                     LineOk \o Newline \o LineBook}

\* A record an earlier run left in a log file.
EarlierRecord == Record(SRR1, <<Project, User>>, <<"earlier run">>)
InitialContents == {<<>>, <<label>>, <<label, EarlierRecord>>, <<EarlierRecord>>}
ErrorIds == {"404", "403", "1101", "validation-failure", "1102", "-1"}
Messages == {MsgDenied}

\* the table read_SRA_log builds from a log that lists ids
TableOf(ids) ==
    read_SRA_log(<<>>, [k \in 1..Len(ids) |-> LogLine(ids[k], Project, User)])

RemovalFailure == <<"rm: cannot remove">>
RemovalOutputs == {<<>>, RemovalFailure}

PastLists == {<<SRR1>>}

\* No spreadsheet was read.
NoColumn == [header |-> <<>>, cells |-> <<>>]

EmptyFiles == [f \in LogFiles |-> <<>>]

\* The control thread is inside run_retriever (called directly or by the driver code).
InRun == entry \in {"run_retriever", "main"}

\* self.prefetch_access_denied_sra, ... as one record
TheLists == Lists(prefetch_access_denied_sra, prefetch_access_failed_sra,
                  prefetch_oversize_sra, previously_retrieved_sra)

\* the identifiers of the rejection lists cleanup_files loops over
Rejected ==
    {prefetch_access_denied_sra[k] : k \in 1..Len(prefetch_access_denied_sra)}
    \cup {prefetch_access_failed_sra[k] : k \in 1..Len(prefetch_access_failed_sra)}
    \cup {prefetch_oversize_sra[k] : k \in 1..Len(prefetch_oversize_sra)}

----------------------------------------------------------------------------
(* run_retriever *)

\* A fresh SequenceRetriever (__init__) on which run_retriever is called, with the
\* identifier log and empty error logs on disk.
Init ==
    /\ rev \in {1, 2}
    /\ entry = "run_retriever"
    /\ pc = "run_retriever"
    /\ verify_input \in BOOLEAN
    /\ validate_data \in BOOLEAN
    /\ column = NoColumn
    /\ sra_log \in ListsUpTo(LogLines, MaxLines)
    /\ data_hash_table = <<>>
    /\ past_sra = <<>>
    /\ sra_list = <<>>
    /\ correct_data = <<>>
    /\ idx = 0
    /\ prefetch_access_denied_sra = <<>>
    /\ prefetch_access_failed_sra = <<>>
    /\ prefetch_oversize_sra = <<>>
    /\ previously_retrieved_sra = <<>>
    /\ files = EmptyFiles
    /\ cmds = <<>>
    /\ outputs = <<>>
    /\ validation = TRUE

\* run_retriever up to the first stage: retrieve_past_SRA (first revision only),
\* read_SRA_log, and sra_list built from the keys of the table.
RunRetriever ==
    /\ pc = "run_retriever"
    /\ \E past \in PastLists :
          past_sra' = IF rev = 1 THEN past ELSE past_sra
    /\ data_hash_table' = read_SRA_log(data_hash_table, sra_log)
    /\ sra_list' = [k \in 1..Len(data_hash_table') |-> Strip(data_hash_table'[k].key)]
    /\ pc' = IF verify_input THEN "verify_sra_format" ELSE "download_data"
    /\ idx' = 1
    /\ UNCHANGED <<rev, entry, verify_input, validate_data, column, sra_log, correct_data,
                   prefetch_access_denied_sra, prefetch_access_failed_sra,
                   prefetch_oversize_sra, previously_retrieved_sra, files, cmds,
                   outputs, validation>>

\* sra_list = self.verify_sra_format(sra_list)
VerifySraFormat ==
    /\ pc = "verify_sra_format"
    /\ LET r == verify_sra_format(sra_list, <<>>, files, data_hash_table, rev)
       IN  /\ files' = r.fs
           /\ correct_data' = r.correct
           /\ sra_list' = IF r.raised \/ ~InRun THEN sra_list ELSE r.correct
           /\ pc' = IF r.raised THEN "KeyError"
                    ELSE IF InRun THEN "download_data" ELSE "returned"
    /\ idx' = 1
    /\ UNCHANGED <<rev, entry, verify_input, validate_data, column, sra_log,
                   data_hash_table, past_sra, prefetch_access_denied_sra,
                   prefetch_access_failed_sra, prefetch_oversize_sra,
                   previously_retrieved_sra, cmds, outputs, validation>>

\* One iteration of the loop of download_data.
DownloadStep ==
    /\ pc = "download_data"
    /\ idx <= Len(sra_list)
    /\ \E vdb_dump_output \in (IF InRun THEN DumpOutputs ELSE DumpSamples), artifact \in {Present, Absent} :
          LET r == download_one(TheLists, past_sra, rev, sra_list[idx],
                                vdb_dump_output, artifact)
          IN  /\ cmds' = cmds \o r.cmds
              /\ prefetch_access_denied_sra' = r.lists.denied
              /\ prefetch_access_failed_sra' = r.lists.failed
              /\ prefetch_oversize_sra' = r.lists.oversize
              /\ previously_retrieved_sra' = r.lists.previous
    /\ idx' = idx + 1
    /\ UNCHANGED <<rev, entry, pc, verify_input, validate_data, column, sra_log,
                   data_hash_table, past_sra, sra_list, correct_data, files, outputs,
                   validation>>

\* a run_retriever that goes from download_data to cleanup_files whatever validate_data
DownloadReturnToCleanup ==
    /\ pc = "download_data"
    /\ idx > Len(sra_list)
    /\ pc' = IF ~InRun THEN "returned" ELSE "cleanup_files"
    /\ idx' = 1
    /\ UNCHANGED <<rev, entry, verify_input, validate_data, column, sra_log,
                   data_hash_table, past_sra, sra_list, correct_data,
                   prefetch_access_denied_sra, prefetch_access_failed_sra,
                   prefetch_oversize_sra, previously_retrieved_sra, files, cmds,
                   outputs, validation>>

\* download_data returns; run_retriever goes on to validation or cleanup.
DownloadReturn ==
    /\ pc = "download_data"
    /\ idx > Len(sra_list)
    /\ pc' = IF ~InRun THEN "returned"
             ELSE IF validate_data THEN "validate_sra_data" ELSE "cleanup_files"
    /\ idx' = 1
    /\ UNCHANGED <<rev, entry, verify_input, validate_data, column, sra_log,
                   data_hash_table, past_sra, sra_list, correct_data,
                   prefetch_access_denied_sra, prefetch_access_failed_sra,
                   prefetch_oversize_sra, previously_retrieved_sra, files, cmds,
                   outputs, validation>>

\* One iteration of the outer loop of validate_sra_data.
ValidateStep ==
    /\ pc = "validate_sra_data"
    /\ idx <= Len(sra_list)
    /\ \E result \in (IF InRun THEN ValidateOutputs ELSE ValidateSamples) :
          LET r == validate_lines(SplitLines(result), files, validation, data_hash_table,
                                  TheLists, rev, sra_list[idx])
          IN  /\ cmds' = Append(cmds, Cmd("vdb-validate", sra_list[idx], result))
              /\ outputs' = Append(outputs, result)
              /\ files' = r.fs
              /\ validation' = r.validation
              /\ pc' = IF r.raised THEN "KeyError" ELSE pc
    /\ idx' = idx + 1
    /\ UNCHANGED <<rev, entry, verify_input, validate_data, column, sra_log,
                   data_hash_table, past_sra, sra_list, correct_data,
                   prefetch_access_denied_sra, prefetch_access_failed_sra,
                   prefetch_oversize_sra, previously_retrieved_sra>>

\* validate_sra_data returns validation.
ValidateReturn ==
    /\ pc = "validate_sra_data"
    /\ idx > Len(sra_list)
    /\ pc' = IF InRun THEN "cleanup_files" ELSE "returned"
    /\ idx' = 1
    /\ UNCHANGED <<rev, entry, verify_input, validate_data, column, sra_log,
                   data_hash_table, past_sra, sra_list, correct_data,
                   prefetch_access_denied_sra, prefetch_access_failed_sra,
                   prefetch_oversize_sra, previously_retrieved_sra, files, cmds,
                   outputs, validation>>

\* One iteration of the first loop of cleanup_files.
CleanupStep ==
    /\ pc = "cleanup_files"
    /\ idx <= Len(sra_list)
    /\ LET sra_num == Normalize(sra_list[idx])
       IN  IF CleanupSkips(TheLists, rev, sra_num)
           THEN UNCHANGED <<pc, files, cmds>>
           ELSE \E file_removal \in RemovalOutputs, dir_removal \in RemovalOutputs :
                   /\ cmds' = cmds \o <<Cmd("rm", sra_num, file_removal),
                                        Cmd("rmdir", sra_num, dir_removal)>>
                   /\ IF Len(file_removal) > 0 \/ Len(dir_removal) > 0
                      THEN /\ files' = log_error(files, data_hash_table, rev, sra_num,
                                                 MsgRemovalFailed(rev, sra_num), "-1")
                           /\ pc' = IF HasKey(data_hash_table, sra_num)
                                    THEN pc ELSE "KeyError"
                      ELSE UNCHANGED <<pc, files>>
    /\ idx' = idx + 1
    /\ UNCHANGED <<rev, entry, verify_input, validate_data, column, sra_log,
                   data_hash_table, past_sra, sra_list, correct_data,
                   prefetch_access_denied_sra, prefetch_access_failed_sra,
                   prefetch_oversize_sra, previously_retrieved_sra, outputs, validation>>

\* The three loops over the rejection lists that end cleanup_files, and the return
\* of run_retriever.
CleanupRejected ==
    /\ pc = "cleanup_files"
    /\ idx > Len(sra_list)
    /\ \E removal \in [Rejected -> RemovalOutputs] :
          LET d == cleanup_rejected(prefetch_access_denied_sra, removal, cmds, files,
                                    data_hash_table, rev, MsgDenied, "403")
              f == IF d.raised THEN d
                   ELSE cleanup_rejected(prefetch_access_failed_sra, removal, d.cmds, d.fs,
                                         data_hash_table, rev, MsgFailed, "404")
              o == IF f.raised \/ rev # 1 THEN f
                   ELSE cleanup_rejected(prefetch_oversize_sra, removal, f.cmds, f.fs,
                                         data_hash_table, rev, MsgOversize, "1101")
          IN  /\ cmds' = o.cmds
              /\ files' = o.fs
              /\ pc' = IF o.raised THEN "KeyError" ELSE "done"
    /\ UNCHANGED <<rev, entry, verify_input, validate_data, column, sra_log,
                   data_hash_table, past_sra, sra_list, correct_data, idx,
                   prefetch_access_denied_sra, prefetch_access_failed_sra,
                   prefetch_oversize_sra, previously_retrieved_sra, outputs, validation>>

Next ==
    \/ RunRetriever
    \/ VerifySraFormat
    \/ DownloadStep
    \/ DownloadReturn
    \/ ValidateStep
    \/ ValidateReturn
    \/ CleanupStep
    \/ CleanupRejected

Spec == Init /\ [][Next]_vars

\* A fresh SequenceRetriever on which run_retriever is called, with an identifier log
\* of distinct lines, one of them an identifier verify_sra_format rejects.
InitLive ==
    /\ rev \in {1, 2}
    /\ entry = "run_retriever"
    /\ pc = "run_retriever"
    /\ verify_input \in BOOLEAN
    /\ validate_data \in BOOLEAN
    /\ column = NoColumn
    /\ sra_log \in {l \in ListsUpTo({LogLine(id, Project, User) : id \in {SRR1, DRR3}},
                                    MaxLines) : Distinct(l)}
    /\ data_hash_table = <<>>
    /\ past_sra = <<>>
    /\ sra_list = <<>>
    /\ correct_data = <<>>
    /\ idx = 0
    /\ prefetch_access_denied_sra = <<>>
    /\ prefetch_access_failed_sra = <<>>
    /\ prefetch_oversize_sra = <<>>
    /\ previously_retrieved_sra = <<>>
    /\ files = EmptyFiles
    /\ cmds = <<>>
    /\ outputs = <<>>
    /\ validation = TRUE

\* run_retriever runs in one thread, each external command is waited for and taken
\* to return: a step that can be taken is taken.
SpecLive == InitLive /\ [][Next]_vars /\ WF_vars(Next)

----------------------------------------------------------------------------
(* The driver code: retrieve_SRA, then run_retriever(verify_input=True,
   validate_data=True), followed here up to the end of verify_sra_format *)

InitSource ==
    /\ rev \in {1, 2}
    /\ entry = "main"
    /\ pc = "retrieve_SRA"
    /\ verify_input = TRUE
    /\ validate_data = TRUE
    /\ column \in Columns
    /\ sra_log = <<>>
    /\ data_hash_table = <<>>
    /\ past_sra = <<>>
    /\ sra_list = <<>>
    /\ correct_data = <<>>
    /\ idx = 0
    /\ prefetch_access_denied_sra = <<>>
    /\ prefetch_access_failed_sra = <<>>
    /\ prefetch_oversize_sra = <<>>
    /\ previously_retrieved_sra = <<>>
    /\ files = EmptyFiles
    /\ cmds = <<>>
    /\ outputs = <<>>
    /\ validation = TRUE

\* SRARetr.retrieve_SRA(sys.argv)
RetrieveSRA ==
    /\ pc = "retrieve_SRA"
    /\ sra_log' = retrieve_SRA(column, Project, User)
    /\ pc' = "run_retriever"
    /\ UNCHANGED <<rev, entry, verify_input, validate_data, column, data_hash_table,
                   past_sra, sra_list, correct_data, idx, prefetch_access_denied_sra,
                   prefetch_access_failed_sra, prefetch_oversize_sra,
                   previously_retrieved_sra, files, cmds, outputs, validation>>

NextSource ==
    \/ RetrieveSRA
    \/ RunRetriever
    \/ VerifySraFormat

SpecSource == InitSource /\ [][NextSource]_vars

----------------------------------------------------------------------------
(* verify_sra_format called on a list, the table holding every identifier of it *)

InitVerify ==
    /\ rev \in {1, 2}
    /\ entry = "verify_sra_format"
    /\ pc = "verify_sra_format"
    /\ verify_input = TRUE
    /\ validate_data = FALSE
    /\ column = NoColumn
    /\ sra_log = <<>>
    /\ sra_list \in ListsUpTo(IdSamples, MaxInput)
    /\ data_hash_table = TableOf(sra_list)
    /\ past_sra = <<>>
    /\ correct_data = <<>>
    /\ idx = 0
    /\ prefetch_access_denied_sra = <<>>
    /\ prefetch_access_failed_sra = <<>>
    /\ prefetch_oversize_sra = <<>>
    /\ previously_retrieved_sra = <<>>
    /\ files = EmptyFiles
    /\ cmds = <<>>
    /\ outputs = <<>>
    /\ validation = TRUE

NextVerify == VerifySraFormat

SpecVerify == InitVerify /\ [][NextVerify]_vars

----------------------------------------------------------------------------
(* download_data called on a list of distinct identifiers *)

InitDownload ==
    /\ rev \in {1, 2}
    /\ entry = "download_data"
    /\ pc = "download_data"
    /\ verify_input = FALSE
    /\ validate_data = FALSE
    /\ column = NoColumn
    /\ sra_log = <<>>
    /\ sra_list \in {l \in ListsUpTo(LogIds, MaxInput) : Distinct(l)}
    /\ data_hash_table = TableOf(sra_list)
    /\ past_sra = <<>>
    /\ correct_data = <<>>
    /\ idx = 1
    /\ prefetch_access_denied_sra = <<>>
    /\ prefetch_access_failed_sra = <<>>
    /\ prefetch_oversize_sra = <<>>
    /\ previously_retrieved_sra = <<>>
    /\ files = EmptyFiles
    /\ cmds = <<>>
    /\ outputs = <<>>
    /\ validation = TRUE

NextDownload ==
    \/ DownloadStep
    \/ DownloadReturn

SpecDownload == InitDownload /\ [][NextDownload]_vars

----------------------------------------------------------------------------
(* validate_sra_data called on an object whose rejection lists earlier calls
   have filled: the lists persist from call to call and nothing keeps an
   identifier out of two of them *)

InitValidate ==
    /\ rev \in {1, 2}
    /\ entry = "validate_sra_data"
    /\ pc = "validate_sra_data"
    /\ verify_input = FALSE
    /\ validate_data = TRUE
    /\ column = NoColumn
    /\ sra_log = <<>>
    /\ sra_list \in ListsUpTo({SRR1, err2}, MaxInput)
    /\ data_hash_table = TableOf(<<SRR1, err2>>)
    /\ past_sra = <<>>
    /\ correct_data = <<>>
    /\ idx = 1
    /\ prefetch_access_denied_sra \in {<<>>, <<SRR1>>}
    /\ prefetch_access_failed_sra \in {<<>>, <<SRR1>>}
    /\ prefetch_oversize_sra \in (IF rev = 1 THEN {<<>>, <<SRR1>>} ELSE {<<>>})
    /\ previously_retrieved_sra \in (IF rev = 1 THEN {<<>>, <<SRR1>>} ELSE {<<>>})
    /\ files = EmptyFiles
    /\ cmds = <<>>
    /\ outputs = <<>>
    /\ validation = TRUE

NextValidate ==
    \/ ValidateStep
    \/ ValidateReturn

SpecValidate == InitValidate /\ [][NextValidate]_vars

----------------------------------------------------------------------------
(* validate_sra_data called, and the classification then run a second time over the
   outputs the first call captured, with the rejection lists as they were *)

InitRevalidate ==
    /\ rev \in {1, 2}
    /\ entry = "validate_twice"
    /\ pc = "validate_sra_data"
    /\ verify_input = FALSE
    /\ validate_data = TRUE
    /\ column = NoColumn
    /\ sra_log = <<>>
    /\ sra_list \in ListsUpTo({SRR1, err2}, MaxInput)
    /\ data_hash_table = TableOf(<<SRR1, err2>>)
    /\ past_sra = <<>>
    /\ correct_data = <<>>
    /\ idx = 1
    /\ prefetch_access_denied_sra \in {<<>>, <<SRR1>>}
    /\ prefetch_access_failed_sra \in {<<>>, <<SRR1>>}
    /\ prefetch_oversize_sra = <<>>
    /\ previously_retrieved_sra = <<>>
    /\ files = EmptyFiles
    /\ cmds = <<>>
    /\ outputs = <<>>
    /\ validation = TRUE

True == <<"True">>
False == <<"False">>

\* the first call has returned (its value is kept in the trace); the second starts
\* with errors = [] and validation = True
ValidateAgain ==
    /\ pc = "returned"
    /\ entry = "validate_twice"
    /\ cmds' = Append(cmds, Cmd("return", <<>>, IF validation THEN True ELSE False))
    /\ validation' = TRUE
    /\ idx' = 1
    /\ pc' = "validate_again"
    /\ UNCHANGED <<rev, entry, verify_input, validate_data, column, sra_log,
                   data_hash_table, past_sra, sra_list, correct_data,
                   prefetch_access_denied_sra, prefetch_access_failed_sra,
                   prefetch_oversize_sra, previously_retrieved_sra, files, outputs>>

\* the loop over the lines of the output captured for one identifier, run again
ValidateAgainStep ==
    /\ pc = "validate_again"
    /\ idx <= Len(sra_list)
    /\ LET r == validate_lines(SplitLines(outputs[idx]), files, validation,
                               data_hash_table, TheLists, rev, sra_list[idx])
       IN  /\ files' = r.fs
           /\ validation' = r.validation
    /\ idx' = idx + 1
    /\ UNCHANGED <<rev, entry, pc, verify_input, validate_data, column, sra_log,
                   data_hash_table, past_sra, sra_list, correct_data,
                   prefetch_access_denied_sra, prefetch_access_failed_sra,
                   prefetch_oversize_sra, previously_retrieved_sra, cmds, outputs>>

\* the second pass returns validation
ValidateAgainReturn ==
    /\ pc = "validate_again"
    /\ idx > Len(sra_list)
    /\ pc' = "returned_again"
    /\ UNCHANGED <<rev, entry, verify_input, validate_data, column, sra_log,
                   data_hash_table, past_sra, sra_list, correct_data, idx,
                   prefetch_access_denied_sra, prefetch_access_failed_sra,
                   prefetch_oversize_sra, previously_retrieved_sra, files, cmds,
                   outputs, validation>>

NextRevalidate ==
    \/ ValidateStep
    \/ ValidateReturn
    \/ ValidateAgain
    \/ ValidateAgainStep
    \/ ValidateAgainReturn

SpecRevalidate == InitRevalidate /\ [][NextRevalidate]_vars

----------------------------------------------------------------------------
(* check_proccess_output called for process "vdb-dump" any number of times on one
   object *)

DumpLeadingNewline == Newline \o DumpDenied
DumpUpperCase == UpperText(DumpNotFound)
DumpDeniedNoCode == <<"e","r","r">> \o TxtAccessDenied \o <<"x">>
CheckSamples == {DumpBoth, DumpLate, DumpLeadingNewline, DumpUpperCase, DumpDeniedNoCode}

InitCheck ==
    /\ rev \in {1, 2}
    /\ entry = "check_proccess_output"
    /\ pc = "check_proccess_output"
    /\ verify_input = FALSE
    /\ validate_data = FALSE
    /\ column = NoColumn
    /\ sra_log = <<>>
    /\ sra_list = <<>>
    /\ data_hash_table = TableOf(<<SRR1, err2>>)
    /\ past_sra = <<>>
    /\ correct_data = <<>>
    /\ idx = 0
    /\ prefetch_access_denied_sra = <<>>
    /\ prefetch_access_failed_sra = <<>>
    /\ prefetch_oversize_sra = <<>>
    /\ previously_retrieved_sra = <<>>
    /\ files = EmptyFiles
    /\ cmds = <<>>
    /\ outputs = <<>>
    /\ validation = TRUE

\* the value returned, as the trace keeps it
ReturnCode(ret) ==
    CASE ret = 403 -> <<"403">>
      [] ret = 404 -> <<"404">>
      [] ret = 1101 -> <<"1101">>
      [] ret = 1102 -> <<"1102">>
      [] OTHER -> <<"-1">>

\* self.check_proccess_output(sra_num, "vdb-dump", vdb_dump_output)
CheckProcessOutputCall ==
    /\ pc = "check_proccess_output"
    /\ Len(outputs) < MaxCalls
    /\ \E sra_num \in {SRR1, err2}, process_output \in CheckSamples :
          LET r == check_proccess_output(TheLists, past_sra, rev, sra_num, "vdb-dump",
                                         process_output)
          IN  /\ cmds' = cmds \o <<Cmd("vdb-dump", sra_num, process_output),
                                   Cmd("return", sra_num, ReturnCode(r.ret))>>
              /\ outputs' = Append(outputs, process_output)
              /\ prefetch_access_denied_sra' = r.lists.denied
              /\ prefetch_access_failed_sra' = r.lists.failed
              /\ prefetch_oversize_sra' = r.lists.oversize
              /\ previously_retrieved_sra' = r.lists.previous
    /\ UNCHANGED <<rev, entry, pc, verify_input, validate_data, column, sra_log,
                   data_hash_table, past_sra, sra_list, correct_data, idx, files,
                   validation>>

NextCheck == CheckProcessOutputCall

SpecCheck == InitCheck /\ [][NextCheck]_vars

----------------------------------------------------------------------------
(* log_error called any number of times on log files earlier runs may have
   written *)

InitLog ==
    /\ rev \in {1, 2}
    /\ entry = "log_error"
    /\ pc = "log_error"
    /\ verify_input = FALSE
    /\ validate_data = FALSE
    /\ column = NoColumn
    /\ sra_log = <<>>
    /\ sra_list = <<>>
    /\ data_hash_table = TableOf(<<SRR1, err2>>)
    /\ past_sra = <<>>
    /\ correct_data = <<>>
    /\ idx = 0
    /\ prefetch_access_denied_sra = <<>>
    /\ prefetch_access_failed_sra = <<>>
    /\ prefetch_oversize_sra = <<>>
    /\ previously_retrieved_sra = <<>>
    /\ \E c \in InitialContents : files = [f \in LogFiles |-> c]
    /\ cmds = <<>>
    /\ outputs = <<>>
    /\ validation = TRUE

\* self.log_error(sra_num, error_message, error_id)
LogErrorCall ==
    /\ pc = "log_error"
    /\ Len(cmds) < MaxCalls
    /\ \E sra_num \in {SRR1, err2}, error_message \in Messages, error_id \in ErrorIds :
          /\ files' = log_error(files, data_hash_table, rev, sra_num, error_message, error_id)
          /\ cmds' = Append(cmds, Cmd("log_error", sra_num, <<error_id>>))
    /\ UNCHANGED <<rev, entry, pc, verify_input, validate_data, column, sra_log,
                   data_hash_table, past_sra, sra_list, correct_data, idx,
                   prefetch_access_denied_sra, prefetch_access_failed_sra,
                   prefetch_oversize_sra, previously_retrieved_sra, outputs, validation>>

NextLog == LogErrorCall

SpecLog == InitLog /\ [][NextLog]_vars

----------------------------------------------------------------------------
(* Vocabulary of the properties *)

Returned == pc = "returned"
Done == pc = "done"

IsRecord(line) == line.kind = "record"

\* the records of a log file, its label lines left out
Records(content) == SelectSeq(content, IsRecord)

\* the identifiers and the reasons of the records of a log file, in order
RecordIds(content) == [k \in 1..Len(Records(content)) |-> Records(content)[k].sra]
RecordReasons(content) == [k \in 1..Len(Records(content)) |-> Records(content)[k].msg]

\* s is SRR or ERR in either case followed by one or more digits and nothing else
IsAccession(s) ==
    /\ Len(s) >= 4
    /\ UpperText(SubSeq(s, 1, 3)) \in {<<"S","R","R">>, <<"E","R","R">>}
    /\ \A k \in 4..Len(s) : s[k] \in Digits

IsNotAccession(s) == ~IsAccession(s)

\* s is two or three letters followed by one or more digits and nothing else
HasLettersDigitsShape(s) ==
    \E n \in {2, 3} :
        /\ Len(s) > n
        /\ \A k \in 1..n : IsLower(s[k]) \/ IsUpper(s[k])
        /\ \A k \in (n + 1)..Len(s) : s[k] \in Digits

\* the entries of the list verify_sra_format was called with, stripped
StrippedInput == [k \in 1..Len(sra_list) |-> Normalize(sra_list[k])]

VerifyReturned == entry = "verify_sra_format" /\ Returned

----------------------------------------------------------------------------
(* C2 *)

\* C2 as stated: when verify_sra_format returns, the returned list is exactly the
\* entries of the input that match ^(SRR|ERR)[0-9]+$ without regard to case,
\* unchanged and in order, and the other entries are each logged once, in the
\* aggregate log and in the invalid-format log, with reason "Incorrect Formatting".
C2_AsStated ==
    VerifyReturned =>
        /\ correct_data = SelectSeq(sra_list, IsAccession)
        /\ RecordIds(files[ErrorLog]) = SelectSeq(sra_list, IsNotAccession)
        /\ RecordIds(files[InvalidLog]) = SelectSeq(sra_list, IsNotAccession)

\* C2 amended: when verify_sra_format returns, the returned list is exactly the
\* stripped entries of the input that match the pattern, in order, and the other
\* entries are each logged once under their stripped form, in the aggregate log and
\* in the invalid-format log and in no other, with reason "Incorrect Formatting".
C2_VerifyPartitionsStripped ==
    VerifyReturned =>
        /\ correct_data = SelectSeq(StrippedInput, IsAccession)
        /\ RecordIds(files[ErrorLog]) = SelectSeq(StrippedInput, IsNotAccession)
        /\ RecordIds(files[InvalidLog]) = SelectSeq(StrippedInput, IsNotAccession)
        /\ \A k \in 1..Len(Records(files[ErrorLog])) :
              RecordReasons(files[ErrorLog])[k] = IncorrectFormatting
        /\ \A k \in 1..Len(Records(files[InvalidLog])) :
              RecordReasons(files[InvalidLog])[k] = IncorrectFormatting
        /\ \A f \in CategoryLogs \ {InvalidLog} : files[f] = <<>>

\* verify_sra_format has returned from a list with a padded identifier, which it
\* accepted stripped, and a malformed one, which it logged
C2_Witness ==
    /\ VerifyReturned
    /\ sra_list = <<PaddedSRR1, SRR1x>>
    /\ correct_data = <<SRR1>>
    /\ RecordIds(files[InvalidLog]) = <<SRR1x>>

----------------------------------------------------------------------------
(* C3 *)

\* C3 as stated: the filter accepts exactly the entries made of two or three
\* letters, whatever they are, followed by one or more digits.
C3_AsStated ==
    VerifyReturned =>
        \A k \in 1..Len(sra_list) :
            InList(sra_list[k], correct_data) <=> HasLettersDigitsShape(sra_list[k])

\* C3 amended: the filter accepts an entry exactly when, stripped, it is the letters
\* SRR or ERR in either case followed by one or more digits; two letters, or three
\* other letters, followed by digits are rejected.
C3_OnlySrrErrAccepted ==
    VerifyReturned =>
        \A k \in 1..Len(sra_list) :
            LET sra_num == Normalize(sra_list[k])
            IN  /\ InList(sra_num, correct_data) <=> IsAccession(sra_num)
                /\ HasLettersDigitsShape(sra_num)
                      /\ UpperText(SubSeq(sra_num, 1, 3)) \notin {<<"S","R","R">>, <<"E","R","R">>}
                   => InList(sra_num, RecordIds(files[InvalidLog]))

\* verify_sra_format has returned from a list with a lower-case ERR identifier, which
\* it accepted, and DRR3, three letters and a digit, which it rejected
C3_Witness ==
    /\ VerifyReturned
    /\ sra_list = <<err2, DRR3>>
    /\ correct_data = <<err2>>
    /\ RecordIds(files[InvalidLog]) = <<DRR3>>

----------------------------------------------------------------------------
(* C4 *)

\* C4 as stated: once the driver code has run retrieve_SRA, read_SRA_log and
\* verify_sra_format, every cell of the spreadsheet column, the first one included,
\* is either in the accepted list or logged in the invalid-format log.
C4_EveryCellAcceptedOrLogged ==
    entry = "main" /\ pc = "download_data" =>
        \A k \in 1..Len(column.cells) :
            LET sra_num == Strip(column.cells[k])
            IN  \/ InList(sra_num, sra_list)
                \/ InList(sra_num, RecordIds(files[InvalidLog]))

----------------------------------------------------------------------------
(* C5 *)

\* the first line of a captured output, the white space around the output aside
FirstLine(out) == SplitLines(Strip(out))[1]

\* " Access denied " with "( 403 )", and " failed to resolve accession " with
\* "( 404 )", as the patterns the claim quotes
CarriesDenied(line) ==
    /\ SearchCI(line, <<" ","a","c","c","e","s","s"," ","d","e","n","i","e","d"," ">>)
    /\ SearchCI(line, <<" ","4","0","3"," ">>)
CarriesNotFound(line) ==
    /\ SearchCI(line, <<" ","f","a","i","l","e","d"," ","t","o"," ","r","e","s","o","l","v","e",
                        " ","a","c","c","e","s","s","i","o","n"," ">>)
    /\ SearchCI(line, <<" ","4","0","4"," ">>)

\* the positions of cmds at which command c was invoked for sra_num
Invocations(c, sra_num) ==
    {k \in 1..Len(cmds) : cmds[k].cmd = c /\ cmds[k].sra = sra_num}

\* C5: in download_data, in both revisions, an identifier whose vdb-dump output carries
\* on its first line the access-denied or the not-found signature is recorded in the
\* corresponding rejection list (the access-denied one when the line carries both, the
\* code testing it first), and neither prefetch nor fasterq-dump is invoked for it.
C5_SignatureShortCircuits ==
    \A k \in 1..Len(cmds) :
        cmds[k].cmd = "vdb-dump" =>
            LET line == FirstLine(cmds[k].out)
                sra_num == cmds[k].sra
            IN  /\ CarriesDenied(line) => InList(sra_num, prefetch_access_denied_sra)
                /\ CarriesNotFound(line) /\ ~CarriesDenied(line)
                      => InList(sra_num, prefetch_access_failed_sra)
                /\ CarriesDenied(line) \/ CarriesNotFound(line)
                      => /\ Invocations("prefetch", sra_num) = {}
                         /\ Invocations("fasterq-dump", sra_num) = {}

\* download_data has returned after an identifier whose first line carried the
\* not-found signature and one that was fetched and converted
C5_Witness ==
    /\ entry = "download_data"
    /\ Returned
    /\ \E k \in 1..Len(cmds) : cmds[k] = Cmd("vdb-dump", SRR1, DumpNotFound)
    /\ prefetch_access_failed_sra = <<SRR1>>
    /\ Invocations("fasterq-dump", err2) # {}

----------------------------------------------------------------------------
(* C6 *)

\* the records of a log file about sra_num with the given reason
RecordsOf(content, sra_num, reason) ==
    {k \in 1..Len(content) : /\ content[k].kind = "record"
                             /\ content[k].sra = sra_num
                             /\ content[k].msg = reason}

\* What the claim says of an identifier whose artifact is absent after prefetch.
RecordedOversize(sra_num) ==
    /\ InList(sra_num, prefetch_oversize_sra)
    /\ Invocations("fasterq-dump", sra_num) = {}
    /\ Done => /\ Cardinality(RecordsOf(files[ErrorLog], sra_num, MsgOversize)) = 1
               /\ Cardinality(RecordsOf(files[OversizeLog], sra_num, MsgOversize)) = 1

\* C6 as stated: in download_data, whenever the artifact is absent after prefetch,
\* the identifier is recorded as size-exceeded, fasterq-dump is not invoked for it,
\* and cleanup writes one oversize (1101) record for it.
C6_AsStated ==
    \A k \in 1..Len(cmds) :
        cmds[k].cmd = "prefetch" /\ cmds[k].out = Absent => RecordedOversize(cmds[k].sra)

\* C6 amended: the same, in download_data of SequenceRetriever.py (the revision that
\* bounds the size of the download).
C6_AbsentArtifactIsOversize ==
    rev = 1 =>
        \A k \in 1..Len(cmds) :
            cmds[k].cmd = "prefetch" /\ cmds[k].out = Absent
                => RecordedOversize(cmds[k].sra)

\* a run of SequenceRetriever.py has ended after a prefetch that left no artifact
C6_Witness ==
    /\ rev = 1
    /\ Done
    /\ \E k \in 1..Len(cmds) : cmds[k] = Cmd("prefetch", SRR1, Absent)
    /\ Cardinality(RecordsOf(files[OversizeLog], SRR1, MsgOversize)) = 1

----------------------------------------------------------------------------
(* C7 *)

AfterDownload == pc \in {"validate_sra_data", "cleanup_files", "done"}

\* C7: in a run of run_retriever the pre-check is invoked exactly once for each
\* accepted identifier (and for no other), prefetch and fasterq-dump at most once
\* each, also when the identifier log lists an identifier on several lines.
C7_OneAttemptPerIdentifier ==
    \A sra_num \in LogIds :
        /\ Cardinality(Invocations("vdb-dump", sra_num)) <= 1
        /\ Cardinality(Invocations("prefetch", sra_num)) <= 1
        /\ Cardinality(Invocations("fasterq-dump", sra_num)) <= 1
        /\ AfterDownload =>
              Cardinality(Invocations("vdb-dump", sra_num))
                  = (IF InList(sra_num, sra_list) THEN 1 ELSE 0)

\* a run has ended whose identifier log listed SRR1 on two lines
C7_Witness ==
    /\ Done
    /\ sra_log = <<LogLine(SRR1, Project, User), LogLine(SRR1, Project, User)>>
    /\ Cardinality(Invocations("vdb-dump", SRR1)) = 1
    /\ Cardinality(Invocations("prefetch", SRR1)) = 1

----------------------------------------------------------------------------
(* C8 *)

\* the last Len(p) characters of line are p, letters compared without case
EndsWith(line, p) ==
    /\ Len(line) >= Len(p)
    /\ \A k \in 1..Len(p) : Lower(line[Len(line) - Len(p) + k]) = Lower(p[k])

\* a known-good line as the claim words it
EndsOkReadsConsistent(line) ==
    \/ EndsWith(line, <<"o","k">>)
    \/ EndsWith(line, <<"r","e","a","d","s">>)
    \/ EndsWith(line, <<"i","s"," ","c","o","n","s","i","s","t","e","n","t">>)

\* a known-good line as the three patterns have it: "ok" after a letter or digit and
\* a space, "reads" after a space, or "is consistent", at the end of the line
PassesPatterns(line) ==
    \/ /\ EndsWith(line, <<" ","o","k">>)
       /\ Len(line) >= 4
       /\ IsAlnum(line[Len(line) - 3])
    \/ EndsWith(line, <<" ","r","e","a","d","s">>)
    \/ EndsWith(line, <<"i","s"," ","c","o","n","s","i","s","t","e","n","t">>)

\* every line of every captured vdb-validate output satisfies Good
AllLines(Good(_)) ==
    \A k \in 1..Len(outputs) :
        \A j \in 1..Len(SplitLines(outputs[k])) : Good(SplitLines(outputs[k])[j])

ValidateReturned == entry = "validate_sra_data" /\ Returned

----------------------------------------------------------------------------
(* C9 *)

\* the reason the claim gives a failing line of sra_num
ReasonByPriority(sra_num, line) ==
    IF InList(sra_num, prefetch_access_denied_sra) THEN MsgPrivate
    ELSE IF InList(sra_num, prefetch_access_failed_sra) THEN MsgIncorrectSRA
    ELSE IF InList(sra_num, prefetch_oversize_sra) THEN MsgSizeExceeds
    ELSE IF InList(sra_num, previously_retrieved_sra) THEN MsgRetrievedPreviously
    ELSE line

\* the reasons of the failing lines among lines, in order
RECURSIVE ReasonsOfLines(_, _)
ReasonsOfLines(sra_num, lines) ==
    IF lines = <<>> THEN <<>>
    ELSE (IF PassesPatterns(Head(lines)) THEN <<>>
          ELSE <<ReasonByPriority(sra_num, Head(lines))>>)
         \o ReasonsOfLines(sra_num, Tail(lines))

\* the reasons of the failing lines of the first n validated identifiers, in order
RECURSIVE ReasonsOfOutputs(_)
ReasonsOfOutputs(n) ==
    IF n = 0 THEN <<>>
    ELSE ReasonsOfOutputs(n - 1) \o ReasonsOfLines(sra_list[n], SplitLines(outputs[n]))

\* C9: the records validate_sra_data writes are one per failing line, in order, each
\* with the reason resolved by priority: access-denied, not-found, size-exceeded,
\* already-retrieved, else the text of the line; a good line writes no record.
C9_ReasonByPriority ==
    entry = "validate_sra_data" =>
        /\ RecordReasons(files[ValidationLog]) = ReasonsOfOutputs(Len(outputs))
        /\ RecordReasons(files[ErrorLog]) = ReasonsOfOutputs(Len(outputs))

\* validate_sra_data has returned after failing lines of SRR1, which is in the
\* access-denied, not-found and size-exceeded lists, and of err2, which is in none,
\* and a good line "a is consistent"
C9_Witness ==
    /\ ValidateReturned
    /\ prefetch_access_denied_sra = <<SRR1>>
    /\ prefetch_access_failed_sra = <<SRR1>>
    /\ prefetch_oversize_sra = <<SRR1>>
    /\ sra_list = <<SRR1, err2>>
    /\ outputs = <<LineCorrupted, LineCorrupted \o Newline \o LineConsistent>>
    /\ RecordReasons(files[ValidationLog]) = <<MsgPrivate, LineCorrupted>>

----------------------------------------------------------------------------
(* C10 *)

IsAppended(line) == line.kind = "record" /\ line.msg # EarlierRecord.msg

\* the number of records the calls have appended to a log file
Appended(f) == Len(SelectSeq(files[f], IsAppended))

\* the error ids that have a category file
IdsWithFile == IF rev = 1 THEN {"404", "403", "1101", "validation-failure", "1102"}
               ELSE {"404", "403", "validation-failure"}

\* the calls of log_error made with an error id that has no category file
CallsWithoutFile == {k \in 1..Len(cmds) : cmds[k].out[1] \notin IdsWithFile}

AppendedToCategoryLogs ==
    Appended(InvalidLog) + Appended(PrivateLog) + Appended(OversizeLog)
        + Appended(ValidationLog) + Appended(PreviousLog)

\* C10: after any sequence of log_error calls the records appended to the aggregate
\* log are as many as those appended to the category logs together plus the calls
\* made with an error id that has no category file; each call appends one aggregate
\* record and at most one category record.
C10_AggregateEqualsCategoriesPlusUncategorized ==
    entry = "log_error" =>
        /\ Appended(ErrorLog) = AppendedToCategoryLogs + Cardinality(CallsWithoutFile)
        /\ Appended(ErrorLog) = Len(cmds)
        /\ AppendedToCategoryLogs <= Len(cmds)

\* three calls were made, one with "-1", which has no file, one with "403" and one
\* with "1101", on logs that held a record of an earlier run
C10_Witness ==
    /\ entry = "log_error"
    /\ files[PrivateLog] = <<label, EarlierRecord, Record(SRR1, <<Project, User>>, MsgDenied)>>
    /\ [k \in 1..Len(cmds) |-> cmds[k].out[1]] = <<"-1", "403", "1101">>

----------------------------------------------------------------------------
(* C1 *)

\* the number of records of a log file about sra_num
RecordCount(f, sra_num) ==
    Cardinality({k \in 1..Len(files[f]) :
                    files[f][k].kind = "record" /\ files[f][k].sra = sra_num})

CategoryCount(sra_num) ==
    RecordCount(InvalidLog, sra_num) + RecordCount(PrivateLog, sra_num)
        + RecordCount(OversizeLog, sra_num) + RecordCount(ValidationLog, sra_num)
        + RecordCount(PreviousLog, sra_num)

\* verify_sra_format rejected sra_num
Malformed(sra_num) == verify_input /\ ~IsAccession(sra_num)

\* the failing lines of the validation output captured for sra_num
FailingLines(sra_num) ==
    UNION {LET lines == SplitLines(cmds[k].out)
           IN  {<<k, j>> : j \in {i \in 1..Len(lines) : ~PassesPatterns(lines[i])}} :
           k \in {n \in 1..Len(cmds) :
                     cmds[n].cmd = "vdb-validate" /\ cmds[n].sra = sra_num}}

\* rm or rmdir answered with text for sra_num in the first loop of cleanup_files
RemovalFailed(sra_num) ==
    \E k \in 1..Len(cmds) :
        cmds[k].cmd \in {"rm", "rmdir"} /\ cmds[k].sra = sra_num /\ cmds[k].out # <<>>

InRejectionList(sra_num) ==
    \/ InList(sra_num, prefetch_access_denied_sra)
    \/ InList(sra_num, prefetch_access_failed_sra)
    \/ InList(sra_num, prefetch_oversize_sra)

\* sra_num failed, as the claim lists the failures
Failed(sra_num) ==
    Malformed(sra_num) \/ InRejectionList(sra_num) \/ FailingLines(sra_num) # {}

One(b) == IF b THEN 1 ELSE 0

\* C1 as stated: at the end of every run an identifier that failed has exactly one
\* aggregate record and exactly one category record, and any other has no record
\* (the record of a failed removal, which has no category, is not counted).
C1_AsStated ==
    entry = "run_retriever" /\ Done =>
        \A k \in 1..Len(data_hash_table) :
            LET sra_num == data_hash_table[k].key
            IN  IF Failed(sra_num)
                THEN /\ RecordCount(ErrorLog, sra_num) = 1 + One(RemovalFailed(sra_num))
                     /\ CategoryCount(sra_num) = 1
                ELSE /\ RecordCount(ErrorLog, sra_num) = One(RemovalFailed(sra_num))
                     /\ CategoryCount(sra_num) = 0

\* C1 amended: at the end of every run an identifier has, in the aggregate log and in
\* the category log named, one record if verify_sra_format rejected it (invalid) or it
\* is in a rejection list (private for access-denied, invalid for not-found, oversize
\* for size-exceeded), and one record per failing line of its validation output
\* (validation-failure; rejected identifiers are validated too); it has one more
\* record, in the aggregate log alone, if the removal of its files failed; an
\* identifier to which none of these applies has no record in any log.
C1_RecordsPerIdentifier ==
    entry = "run_retriever" /\ Done =>
        \A k \in 1..Len(data_hash_table) :
            LET sra_num == data_hash_table[k].key
                denied == One(InList(sra_num, prefetch_access_denied_sra))
                invalid == One(Malformed(sra_num)
                               \/ InList(sra_num, prefetch_access_failed_sra))
                oversize == One(InList(sra_num, prefetch_oversize_sra))
                lines == Cardinality(FailingLines(sra_num))
            IN  /\ RecordCount(PrivateLog, sra_num) = denied
                /\ RecordCount(InvalidLog, sra_num) = invalid
                /\ RecordCount(OversizeLog, sra_num) = oversize
                /\ RecordCount(ValidationLog, sra_num) = lines
                /\ RecordCount(PreviousLog, sra_num) = 0
                /\ denied + invalid + oversize <= 1
                /\ RecordCount(ErrorLog, sra_num)
                      = denied + invalid + oversize + lines + One(RemovalFailed(sra_num))

\* a run has ended in which SRR1 was denied access and failed two validation lines,
\* which makes three records, and err2 had no error and has none
C1_Witness ==
    /\ entry = "run_retriever"
    /\ Done
    /\ prefetch_access_denied_sra = <<SRR1>>
    /\ RecordCount(ErrorLog, SRR1) = 3
    /\ RecordCount(ValidationLog, SRR1) = 2
    /\ InList(err2, sra_list)
    /\ RecordCount(ErrorLog, err2) = 0

----------------------------------------------------------------------------
(* C11 *)

IsLabel(line) == line.kind = "label"

\* the number of label lines of a log file
LabelCount(f) == Len(SelectSeq(files[f], IsLabel))

\* the file log_error writes a call with error_id to besides the aggregate log
WritesTo(f, error_id) == f = ErrorLog \/ f = CategoryFile(rev, error_id)

\* the records the calls made so far have written to f, in call order
RECURSIVE RecordsOfCalls(_, _)
RecordsOfCalls(f, n) ==
    IF n = 0 THEN <<>>
    ELSE RecordsOfCalls(f, n - 1)
         \o (IF WritesTo(f, cmds[n].out[1])
             THEN <<Record(cmds[n].sra, TableGet(data_hash_table, cmds[n].sra), MsgDenied)>>
             ELSE <<>>)

\* f held no record before the first call
HeldNoRecord(f) == \A k \in 1..Len(files[f]) : files[f][k] # EarlierRecord

\* C11: a log file that was missing or empty before the first write has, after n >= 1
\* log_error calls that write to it, the label as its first line, the label exactly
\* once, and after it exactly the n records in call order.
C11_LabelOnceThenRecords ==
    entry = "log_error" =>
        \A f \in LogFiles :
            HeldNoRecord(f) /\ RecordsOfCalls(f, Len(cmds)) # <<>> =>
                /\ Head(files[f]) = label
                /\ LabelCount(f) = 1
                /\ files[f] = <<label>> \o RecordsOfCalls(f, Len(cmds))

\* three calls were made on empty files (the log of previous retrievals, which none
\* of them writes to, is still empty), for SRR1, err2 and SRR1 with ids 403, 404 and
\* 403: the aggregate log holds the label and three records, the private log the
\* label and two
C11_Witness ==
    /\ entry = "log_error"
    /\ files[PreviousLog] = <<>>
    /\ [k \in 1..Len(cmds) |-> cmds[k].out[1]] = <<"403", "404", "403">>
    /\ [k \in 1..Len(cmds) |-> cmds[k].sra] = <<SRR1, err2, SRR1>>
    /\ Len(files[ErrorLog]) = 4
    /\ Len(files[PrivateLog]) = 3

----------------------------------------------------------------------------
(* C12 *)

\* C12: a log file whose first line is the label never gets the label again, and a
\* log file whose first line is a record never gets a label line at all.
C12_NoLabelWrittenAgain ==
    entry = "log_error" =>
        \A f \in LogFiles :
            /\ (files[f] # <<>> /\ Head(files[f]) = label => LabelCount(f) = 1)
            /\ (files[f] # <<>> /\ Head(files[f]) = EarlierRecord => LabelCount(f) = 0)

----------------------------------------------------------------------------
(* C13 *)

\* C13: at the end of a run, for every identifier cleanup_files was given: if it is in
\* no rejection list, the removal of its intermediate file and of the directory holding
\* it were each issued once and its output directory was not touched; if it is in the
\* access-denied, not-found or size-exceeded list, neither of the first two was issued
\* and the removal of its output directory was issued once.
C13_RemovalByClassification ==
    entry = "run_retriever" /\ Done =>
        \A k \in 1..Len(sra_list) :
            LET sra_num == sra_list[k]
            IN  IF InRejectionList(sra_num)
                THEN /\ Invocations("rm", sra_num) = {}
                     /\ Invocations("rmdir", sra_num) = {}
                     /\ Cardinality(Invocations("rmdir-output", sra_num)) = 1
                ELSE /\ Cardinality(Invocations("rm", sra_num)) = 1
                     /\ Cardinality(Invocations("rmdir", sra_num)) = 1
                     /\ Invocations("rmdir-output", sra_num) = {}

\* a run has ended in which SRR1 was not found, for which only the output directory
\* was removed, and err2 was downloaded, for which the file and its directory were
C13_Witness ==
    /\ entry = "run_retriever"
    /\ Done
    /\ sra_list = <<SRR1, err2>>
    /\ prefetch_access_failed_sra = <<SRR1>>
    /\ Invocations("rmdir-output", SRR1) # {}
    /\ Invocations("rm", SRR1) = {}
    /\ Invocations("rm", err2) # {}
    /\ Invocations("rmdir", err2) # {}
    /\ Invocations("rmdir-output", err2) = {}

----------------------------------------------------------------------------
(* C14 *)

\* a removal command cleanup_files issued for sra_num answered with text
SomeRemovalFailed(sra_num) ==
    \E k \in 1..Len(cmds) :
        /\ cmds[k].cmd \in {"rm", "rmdir", "rmdir-output"}
        /\ cmds[k].sra = sra_num
        /\ cmds[k].out # <<>>

\* the records of a failed removal of sra_num in a log file
RemovalRecords(f, sra_num) == RecordsOf(files[f], sra_num, MsgRemovalFailed(rev, sra_num))

\* C14: at the end of a run every identifier for which a removal command failed, be
\* it of the intermediate file, of its directory or of the output directory of a
\* rejected identifier, has exactly one record of the failed removal in the
\* aggregate log and none in a category log, and no removal was issued twice.
C14_FailedRemovalLoggedOnce ==
    entry = "run_retriever" /\ Done =>
        \A sra_num \in LogIds :
            /\ SomeRemovalFailed(sra_num) =>
                  /\ Cardinality(RemovalRecords(ErrorLog, sra_num)) = 1
                  /\ \A f \in CategoryLogs : RemovalRecords(f, sra_num) = {}
            /\ \A c \in {"rm", "rmdir", "rmdir-output"} :
                  Cardinality(Invocations(c, sra_num)) <= 1

----------------------------------------------------------------------------
(* C15 *)

\* C15: at the end of a run every input identifier that is in the list read from the
\* store of past retrievals is in the previously-retrieved list and has a record in
\* the log of previous retrievals (error id 1102).
C15_PastIdentifiersDetected ==
    entry = "run_retriever" /\ Done =>
        \A k \in 1..Len(data_hash_table) :
            LET sra_num == data_hash_table[k].key
            IN  InList(sra_num, past_sra) =>
                    /\ InList(sra_num, previously_retrieved_sra)
                    /\ RecordCount(PreviousLog, sra_num) >= 1

----------------------------------------------------------------------------
(* C16 *)

\* the output the one pre-check of sra_num captured
DumpOutputOf(sra_num) ==
    cmds[CHOOSE k \in 1..Len(cmds) : cmds[k].cmd = "vdb-dump" /\ cmds[k].sra = sra_num].out

\* prefetch ran for sra_num and left no artifact
ArtifactAbsent(sra_num) ==
    \E k \in Invocations("prefetch", sra_num) : cmds[k].out = Absent

\* the lists sra_num is in are those its own command outputs call for
ClassifiedByOwnOutputs(sra_num) ==
    LET line == FirstLine(DumpOutputOf(sra_num))
    IN  /\ InList(sra_num, prefetch_access_denied_sra) <=> CarriesDenied(line)
        /\ InList(sra_num, prefetch_access_failed_sra)
              <=> ~CarriesDenied(line) /\ CarriesNotFound(line)
        /\ InList(sra_num, prefetch_oversize_sra)
              <=> /\ rev = 1
                  /\ ~CarriesDenied(line)
                  /\ ~CarriesNotFound(line)
                  /\ ArtifactAbsent(sra_num)

\* every accepted identifier went through every stage the run had
EveryIdentifierProcessed ==
    /\ AfterDownload =>
          \A k \in 1..Len(sra_list) :
              /\ Cardinality(Invocations("vdb-dump", sra_list[k])) = 1
              /\ ClassifiedByOwnOutputs(sra_list[k])
    /\ Done =>
          \A k \in 1..Len(sra_list) :
              /\ validate_data =>
                    Cardinality(Invocations("vdb-validate", sra_list[k])) = 1
              /\ Cardinality(Invocations("rm", sra_list[k])
                             \cup Invocations("rmdir-output", sra_list[k])) = 1

----------------------------------------------------------------------------
(* C17 *)

\* the number of times x occurs in list
Occurrences(x, list) == Cardinality({k \in 1..Len(list) : list[k] = x})

\* the number of times sra_num occurs in the four rejection lists together
TimesRejected(sra_num) ==
    Occurrences(sra_num, prefetch_access_denied_sra)
        + Occurrences(sra_num, prefetch_access_failed_sra)
        + Occurrences(sra_num, prefetch_oversize_sra)
        + Occurrences(sra_num, previously_retrieved_sra)

\* old is the beginning of new
IsPrefix(old, new) ==
    Len(old) <= Len(new) /\ \A k \in 1..Len(old) : new[k] = old[k]

\* C17: in a run of run_retriever (its identifiers are distinct, being the keys of a
\* dict) each identifier occurs at most once in the four rejection lists taken
\* together, and no step removes or moves an entry: each list only grows at its end.
C17_ClassifiedOnceNeverRevised ==
    /\ [](entry = "run_retriever" => \A sra_num \in LogIds : TimesRejected(sra_num) <= 1)
    /\ [][/\ IsPrefix(prefetch_access_denied_sra, prefetch_access_denied_sra')
          /\ IsPrefix(prefetch_access_failed_sra, prefetch_access_failed_sra')
          /\ IsPrefix(prefetch_oversize_sra, prefetch_oversize_sra')
          /\ IsPrefix(previously_retrieved_sra, previously_retrieved_sra')]_vars

\* a run with validation has ended in which SRR1 was denied access and err2 left no
\* artifact: each is in one list, as it was when download_data returned
C17_Witness ==
    /\ entry = "run_retriever"
    /\ Done
    /\ validate_data
    /\ prefetch_access_denied_sra = <<SRR1>>
    /\ prefetch_access_failed_sra = <<>>
    /\ prefetch_oversize_sra = <<err2>>
    /\ Invocations("vdb-validate", SRR1) # {}
    /\ Invocations("rmdir-output", err2) # {}

----------------------------------------------------------------------------
(* C18 *)

\* the second half of a list repeats the first
SecondHalfRepeatsFirst(list) ==
    /\ Len(list) % 2 = 0
    /\ \A k \in 1..(Len(list) \div 2) : list[k + (Len(list) \div 2)] = list[k]

\* the value the first call returned
FirstReturn == cmds[Len(cmds)].out

\* C18: when the classification is run a second time over the outputs a call of
\* validate_sra_data captured, for the same identifiers and rejection lists, it fails
\* the same lines with the same reasons in the same order (the records of the second
\* pass repeat those of the first, in the validation log and in the aggregate log)
\* and returns the same boolean.
C18_ValidationRepeatable ==
    pc = "returned_again" =>
        /\ SecondHalfRepeatsFirst(Records(files[ValidationLog]))
        /\ SecondHalfRepeatsFirst(Records(files[ErrorLog]))
        /\ validation <=> FirstReturn = True

\* both passes have returned False over two identifiers, the first in the
\* access-denied list with one failing line, the second with a good line and a
\* failing one: four records, the last two repeating the first two
C18_Witness ==
    /\ pc = "returned_again"
    /\ sra_list = <<SRR1, err2>>
    /\ prefetch_access_denied_sra = <<SRR1>>
    /\ outputs = <<LineCorrupted, LineOk \o Newline \o LineBook>>
    /\ RecordReasons(files[ValidationLog]) = <<MsgPrivate, LineBook, MsgPrivate, LineBook>>
    /\ ~validation
    /\ FirstReturn = False

----------------------------------------------------------------------------
(* C19 *)

DownloadCommands == {"vdb-dump", "prefetch", "fasterq-dump"}
CleanupCommands == {"rm", "rmdir", "rmdir-output"}

\* the stage of run_retriever that issues a command
StageOf(c) ==
    IF c \in DownloadCommands THEN 1 ELSE IF c = "vdb-validate" THEN 2 ELSE 3

\* the commands of the trace are in the order of the stages: those of download_data,
\* then those of validate_sra_data, then those of cleanup_files
CommandsInStageOrder ==
    \A i \in 1..(Len(cmds) - 1) : StageOf(cmds[i].cmd) <= StageOf(cmds[i + 1].cmd)

\* verify_sra_format finishes before any pre-check, download_data before any
\* validation, and validation is invoked for every accepted identifier
StagesInOrder ==
    /\ pc \in {"run_retriever", "verify_sra_format"} => cmds = <<>>
    /\ pc = "download_data" => \A k \in 1..Len(cmds) : cmds[k].cmd \in DownloadCommands
    /\ CommandsInStageOrder
    /\ pc \in {"cleanup_files", "done"} /\ validate_data =>
          \A k \in 1..Len(sra_list) :
              Cardinality(Invocations("vdb-validate", sra_list[k])) = 1

\* the records cleanup_files writes for the entries of a rejection list
CleanupRecords(list, error_message) ==
    [k \in 1..Len(list) |->
        Record(list[k], TableGet(data_hash_table, list[k]), error_message)]

IsFormatRecord(r) == r.kind = "record" /\ r.msg = IncorrectFormatting
IsRemovalRecord(r) == r.kind = "record" /\ r.msg = MsgRemovalFailed(rev, r.sra)
IsCategoryRecord(r) == r.kind = "record" /\ ~IsRemovalRecord(r)

\* the records of the aggregate log written by verify_sra_format, by
\* validate_sra_data, by the first loop of cleanup_files and by its last three
FormatRecords == SelectSeq(files[InvalidLog], IsFormatRecord)
ValidationRecords == Records(files[ValidationLog])
FailedRemovalRecords == SelectSeq(files[ErrorLog], IsRemovalRecord)
RejectionRecords ==
    IF Done
    THEN CleanupRecords(prefetch_access_denied_sra, MsgDenied)
         \o CleanupRecords(prefetch_access_failed_sra, MsgFailed)
         \o CleanupRecords(prefetch_oversize_sra, MsgOversize)
    ELSE <<>>

\* C19 as stated: the stages run in order, and in the aggregate log the
\* validation-failure records come before every record written with error id 403,
\* 404 or 1101.
C19_AsStated ==
    entry = "run_retriever" =>
        /\ StagesInOrder
        /\ IsPrefix(ValidationRecords, SelectSeq(files[ErrorLog], IsCategoryRecord))

\* C19 amended: verify_sra_format (if enabled) finishes before any pre-check and
\* writes the 404 records of the malformed identifiers then; download_data finishes
\* for all identifiers before validation is invoked for any; validation (if enabled)
\* is invoked for every accepted identifier, those short-circuited at pre-check or
\* recorded as size-exceeded included; the 403, 404 and 1101 records of the
\* identifiers in the rejection lists are written only by the last step of
\* cleanup_files.  The aggregate log thus holds the 404 records of verify_sra_format,
\* then the validation-failure records, then the records of failed removals, then
\* the 403, 404 and 1101 records of the rejection lists: none of these last precedes
\* a validation-failure record.
C19_StagesInOrder ==
    entry = "run_retriever" =>
        /\ StagesInOrder
        /\ Records(files[ErrorLog])
              = FormatRecords \o ValidationRecords \o FailedRemovalRecords \o RejectionRecords
        /\ ~Done => /\ files[PrivateLog] = <<>>
                    /\ files[OversizeLog] = <<>>
                    /\ Records(files[InvalidLog]) = FormatRecords

\* a run with verification and validation has ended: DRR3 was rejected as malformed,
\* SRR1 was denied access at pre-check and validated all the same; the aggregate log
\* holds the 404 record of DRR3, the validation-failure records of SRR1 and last its
\* 403 record
C19_Witness ==
    /\ entry = "run_retriever"
    /\ Done
    /\ verify_input
    /\ validate_data
    /\ sra_list = <<SRR1>>
    /\ prefetch_access_denied_sra = <<SRR1>>
    /\ RecordIds(files[ErrorLog]) = <<DRR3, SRR1, SRR1, SRR1>>
    /\ RecordReasons(files[ErrorLog])
          = <<IncorrectFormatting, MsgPrivate, MsgPrivate, MsgDenied>>

----------------------------------------------------------------------------
(* C20 *)

\* the value the claim gives a call with this output
CodeByFirstLine(out) ==
    IF CarriesDenied(FirstLine(out)) THEN <<"403">>
    ELSE IF CarriesNotFound(FirstLine(out)) THEN <<"404">>
    ELSE <<"-1">>

\* the identifiers of the first n calls whose output has the code, in call order
RECURSIVE IdentifiersWithCode(_, _)
IdentifiersWithCode(code, n) ==
    IF n = 0 THEN <<>>
    ELSE IdentifiersWithCode(code, n - 1)
         \o (IF CodeByFirstLine(cmds[2 * n - 1].out) = code
             THEN <<cmds[2 * n - 1].sra>> ELSE <<>>)

\* C20: check_proccess_output for "vdb-dump" looks at the first line of the stripped
\* output alone: it returns 403 and appends the identifier to the access-denied list
\* exactly when that line contains " Access denied " and " 403 " (in either case),
\* else 404 and appends to the not-found list exactly when it contains " failed to
\* resolve accession " and " 404 ", else -1 and changes no list.
C20_FirstLineDecides ==
    entry = "check_proccess_output" =>
        /\ \A n \in 1..Len(outputs) :
              cmds[2 * n].out = CodeByFirstLine(cmds[2 * n - 1].out)
        /\ prefetch_access_denied_sra = IdentifiersWithCode(<<"403">>, Len(outputs))
        /\ prefetch_access_failed_sra = IdentifiersWithCode(<<"404">>, Len(outputs))
        /\ prefetch_oversize_sra = <<>>
        /\ previously_retrieved_sra = <<>>

\* three calls were made: a first line carrying both signatures gave 403 for SRR1, a
\* signature on the second line gave -1 for err2, and the not-found signature in
\* upper case gave 404 for err2
C20_Witness ==
    /\ entry = "check_proccess_output"
    /\ outputs = <<DumpBoth, DumpLate, DumpUpperCase>>
    /\ [k \in 1..Len(cmds) |-> cmds[k].sra] = <<SRR1, SRR1, err2, err2, err2, err2>>
    /\ cmds[2].out = <<"403">>
    /\ cmds[4].out = <<"-1">>
    /\ cmds[6].out = <<"404">>
    /\ prefetch_access_denied_sra = <<SRR1>>
    /\ prefetch_access_failed_sra = <<err2>>

====
